---- MODULE Spec2Model ----
(***************************************************************************)
(* A model of app/app.go of xpx-cosmos: the construction sequence of       *)
(* NewDemocoinApp (codec, store keys, keepers, routes, mounting, loading,  *)
(* sealing), the init chainer, transaction delivery through the router     *)
(* and ExportAppStateAndValidators.                                        *)
(*                                                                         *)
(* Persistent state is a family of key-value stores indexed by the store   *)
(* key fields of DemocoinApp.  A keeper reaches a store only through a     *)
(* store key it was constructed with (store keys are unforgeable pointers).*)
(* The export is taken on the committed state, i.e. on the state the       *)
(* delivered operations have produced.                                     *)
(***************************************************************************)
EXTENDS Integers, Sequences, FiniteSets, TLC

\* ------------------------------------------------------------------ bounds
MaxAccounts == 2     \* longest genesis account list
MaxCoin == 1         \* largest coin amount of a genesis account
MaxEgress == 1       \* most ibc packets queued

\* -------------------------------------------------------------- vocabulary
Nil == "nil"

Addrs == {"addr1", "addr2"}
\* store-native (key) order of the account store
AddrOrder == <<"addr1", "addr2">>
Trends == {"ice-cold", "hot"}
Difficulties == {1, 2}

\* The store key fields of DemocoinApp.
KeyFields ==
    {"capKeyMainStore", "capKeyAccountStore", "capKeyPowStore", "capKeyIBCStore",
     "capKeyStakingStore", "keyParams", "tkeyParams"}

\* The name each store key is created with (bam.MainStoreKey = "main",
\* auth.StoreKey = "acc", staking.StoreKey = "staking").
StoreKeyName ==
    [capKeyMainStore    |-> "main",
     capKeyAccountStore |-> "acc",
     capKeyPowStore     |-> "pow",
     capKeyIBCStore     |-> "ibc",
     capKeyStakingStore |-> "staking",
     keyParams          |-> "params",
     tkeyParams         |-> "transient_params"]

\* The keeper fields and the collaborators built by NewDemocoinApp.
KeeperNames ==
    {"paramsKeeper", "accountKeeper", "bankKeeper", "coolKeeper", "powKeeper",
     "ibcMapper", "stakingKeeper", "feeCollectionKeeper"}

\* The wiring as it would be with the pow keeper built over the main store key.
KeeperWiringPowOnMain ==
    [paramsKeeper  |-> [keys |-> {"keyParams", "tkeyParams"}, deps |-> {}],
     accountKeeper |-> [keys |-> {"capKeyAccountStore"}, deps |-> {"paramsKeeper"}],
     bankKeeper    |-> [keys |-> {}, deps |-> {"accountKeeper"}],
     coolKeeper    |-> [keys |-> {"capKeyMainStore"}, deps |-> {"bankKeeper"}],
     powKeeper     |-> [keys |-> {"capKeyMainStore"}, deps |-> {"bankKeeper"}],
     ibcMapper     |-> [keys |-> {"capKeyIBCStore"}, deps |-> {}],
     stakingKeeper |-> [keys |-> {"capKeyStakingStore"}, deps |-> {"bankKeeper"}]]

\* The wiring as it would be with the staking keeper built over the account
\* store key.
KeeperWiringStakingOnAccounts ==
    [paramsKeeper  |-> [keys |-> {"keyParams", "tkeyParams"}, deps |-> {}],
     accountKeeper |-> [keys |-> {"capKeyAccountStore"}, deps |-> {"paramsKeeper"}],
     bankKeeper    |-> [keys |-> {}, deps |-> {"accountKeeper"}],
     coolKeeper    |-> [keys |-> {"capKeyMainStore"}, deps |-> {"bankKeeper"}],
     powKeeper     |-> [keys |-> {"capKeyPowStore"}, deps |-> {"bankKeeper"}],
     ibcMapper     |-> [keys |-> {"capKeyIBCStore"}, deps |-> {}],
     stakingKeeper |-> [keys |-> {"capKeyAccountStore"}, deps |-> {"bankKeeper"}]]

\* What each constructor call of NewDemocoinApp is handed: store keys and
\* other keepers.
KeeperWiring ==
    [paramsKeeper  |-> [keys |-> {"keyParams", "tkeyParams"}, deps |-> {}],
     accountKeeper |-> [keys |-> {"capKeyAccountStore"}, deps |-> {"paramsKeeper"}],
     bankKeeper    |-> [keys |-> {}, deps |-> {"accountKeeper"}],
     coolKeeper    |-> [keys |-> {"capKeyMainStore"}, deps |-> {"bankKeeper"}],
     powKeeper     |-> [keys |-> {"capKeyPowStore"}, deps |-> {"bankKeeper"}],
     ibcMapper     |-> [keys |-> {"capKeyIBCStore"}, deps |-> {}],
     stakingKeeper |-> [keys |-> {"capKeyStakingStore"}, deps |-> {"bankKeeper"}]]

\* The AddRoute calls as they would be with the ibc handler added under the
\* name of the bank route.
AppRoutesBankTwice ==
    <<[name |-> "bank", handler |-> "bank.NewHandler", deps |-> {"bankKeeper"}],
      [name |-> "bank", handler |-> "ibc.NewHandler", deps |-> {"ibcMapper", "bankKeeper"}],
      [name |-> "simplestaking", handler |-> "simplestaking.NewHandler",
       deps |-> {"stakingKeeper"}]>>

\* The AddRoute calls as they would be with the ibc handler registered for
\* the bank route.
AppRoutesBankToIBC ==
    <<[name |-> "bank", handler |-> "ibc.NewHandler", deps |-> {"ibcMapper", "bankKeeper"}],
      [name |-> "ibc", handler |-> "ibc.NewHandler", deps |-> {"ibcMapper", "bankKeeper"}],
      [name |-> "simplestaking", handler |-> "simplestaking.NewHandler",
       deps |-> {"stakingKeeper"}]>>

\* The three AddRoute calls, in order.
AppRoutes ==
    <<[name |-> "bank", handler |-> "bank.NewHandler", deps |-> {"bankKeeper"}],
      [name |-> "ibc", handler |-> "ibc.NewHandler", deps |-> {"ibcMapper", "bankKeeper"}],
      [name |-> "simplestaking", handler |-> "simplestaking.NewHandler",
       deps |-> {"stakingKeeper"}]>>

\* The argument list of app.MountStores.
MountedKeys ==
    {"capKeyMainStore", "capKeyAccountStore", "capKeyPowStore", "capKeyIBCStore",
     "capKeyStakingStore"}

\* The keepers handed to auth.NewAnteHandler.
AppAnteHandler == {"accountKeeper", "feeCollectionKeeper"}

\* The registrations of MakeCodec, in order, ending with cdc.Seal().
MakeCodecSteps ==
    <<"codec.RegisterCrypto", "sdk.RegisterCodec", "cool.RegisterCodec",
      "pow.RegisterCodec", "bank.RegisterCodec", "ibc.RegisterCodec",
      "simplestaking.RegisterCodec", "auth.Account", "xpx-cosmos/Account", "Seal">>

\* One step on a codec: Seal seals it, anything else registers a type and
\* panics on a sealed codec.
CodecStep(c, step) ==
    IF c.panicked THEN c
    ELSE IF step = "Seal" THEN [c EXCEPT !.sealed = TRUE]
    ELSE IF c.sealed THEN [c EXCEPT !.panicked = TRUE]
    ELSE [c EXCEPT !.types = @ \cup {step}]

RECURSIVE RunCodecSteps(_, _, _)
RunCodecSteps(c, steps, i) ==
    IF i > Len(steps) THEN c
    ELSE RunCodecSteps(CodecStep(c, steps[i]), steps, i + 1)

\* codec.New()
NewCodec == [made |-> TRUE, types |-> {}, sealed |-> FALSE, panicked |-> FALSE]

\* The zero values of the fields of DemocoinApp and of BaseApp.
NoCodec == [made |-> FALSE, types |-> {}, sealed |-> FALSE, panicked |-> FALSE]
ZeroKeeper == [built |-> FALSE, keys |-> {}, deps |-> {}, zero |-> {}]
NoHook == [set |-> FALSE, deps |-> {}, zero |-> {}]

MakeCodec == RunCodecSteps(NewCodec, MakeCodecSteps, 1)

\* ---------------------------------------------------------------- state
VARIABLES
    pc,           \* position in NewDemocoinApp
    cdc,          \* the codec (NoCodec before MakeCodec returns)
    keys,         \* the store key fields assigned so far
    keepers,      \* keeper field -> ZeroKeeper or what it was built from
    router,       \* the route table: a sequence of routes
    initChainer,  \* the init chainer hook and the keepers it closes over
    mounted,      \* the store keys mounted into the multistore
    anteHandler,  \* the ante handler hook and the keepers it was built from
    baseKey,      \* the key handed to LoadLatestVersion (Nil before)
    sealed,       \* BaseApp.sealed
    gstate,       \* genesis controller: Uninitialized, Ready, Panicked
    inits,        \* how many InitChain requests the init chainer has run
                  \* on: "none", "one" or "several"
    gdoc,         \* the InitChain request, kept while no transaction has been
                  \* delivered since (history; NoRequest otherwise)
    stores,       \* store key field -> key-value store
    last          \* what the last operation on the running chain did

vars ==
    <<pc, cdc, keys, keepers, router, initChainer, mounted, anteHandler, baseKey,
      sealed, gstate, inits, gdoc, stores, last>>

appVars == <<cdc, keys, keepers, router, initChainer, mounted, anteHandler, baseKey, sealed>>
chainVars == <<gstate, inits, gdoc, stores, last>>

EmptyStore == [x \in {} |-> Nil]
NoDoc == [accounts |-> <<>>, cool |-> [trend |-> ""], pow |-> [difficulty |-> 0, count |-> 0]]
NoFault == [at |-> "none", acc |-> 0]
NoRequest == [doc |-> NoDoc, fault |-> NoFault]
NoTx == [anteOK |-> FALSE, msg |-> [route |-> "", from |-> "", to |-> "", amt |-> 0, kind |-> ""]]
NoOp ==
    [op |-> "none", tx |-> NoTx, route |-> "", result |-> "", trace |-> <<>>, touched |-> {},
     mutated |-> FALSE, export |-> NoDoc, validators |-> <<>>]

Init ==
    /\ pc = "MakeCodec"
    /\ cdc = NoCodec
    /\ keys = {}
    /\ keepers = [k \in KeeperNames |-> ZeroKeeper]
    /\ router = <<>>
    /\ initChainer = NoHook
    /\ mounted = {}
    /\ anteHandler = NoHook
    /\ baseKey = Nil
    /\ sealed = FALSE
    /\ gstate = "Uninitialized"
    /\ inits = "none"
    /\ gdoc = NoRequest
    /\ stores = [k \in KeyFields |-> EmptyStore]
    /\ last = NoOp

\* --------------------------------------------------- NewDemocoinApp, by line
\* NewDemocoinApp as it would be without the call of app.Seal().
AppProgramSealSkipped ==
    <<"MakeCodec", "NewApp", "paramsKeeper", "accountKeeper", "bankKeeper",
      "coolKeeper", "powKeeper", "ibcMapper", "stakingKeeper", "AddRoute",
      "SetInitChainer", "MountStores", "SetAnteHandler", "LoadLatestVersion",
      "return", "returned">>

\* The order of the statements of NewDemocoinApp.
AppProgram ==
    <<"MakeCodec", "NewApp", "paramsKeeper", "accountKeeper", "bankKeeper",
      "coolKeeper", "powKeeper", "ibcMapper", "stakingKeeper", "AddRoute",
      "SetInitChainer", "MountStores", "SetAnteHandler", "LoadLatestVersion",
      "Seal", "return", "returned">>

Pos(label) == CHOOSE i \in 1..Len(AppProgram) : AppProgram[i] = label
After(label) == AppProgram[Pos(label) + 1]
\* the statement `label` has been executed
Past(label) ==
    /\ pc \in {AppProgram[i] : i \in 1..Len(AppProgram)}
    /\ Pos(pc) > Pos(label)

\* var cdc = MakeCodec()
MakeCodecCall ==
    /\ pc = "MakeCodec"
    /\ cdc' = MakeCodec
    /\ pc' = IF MakeCodec.panicked THEN "panicked" ELSE After("MakeCodec")
    /\ UNCHANGED <<keys, keepers, router, initChainer, mounted, anteHandler, baseKey, sealed>>
    /\ UNCHANGED chainVars

\* var app = &DemocoinApp{BaseApp: bam.NewBaseApp(...), cdc: cdc, capKey...: ...}
NewApp ==
    /\ pc = "NewApp"
    /\ keys' = KeyFields
    /\ pc' = After("NewApp")
    /\ UNCHANGED <<cdc, keepers, router, initChainer, mounted, anteHandler, baseKey, sealed>>
    /\ UNCHANGED chainVars

\* A keeper as built at this point of the sequence: the keys it is handed and,
\* of the keepers it is handed, those still at their zero value.
BuildKeeper(k) ==
    [built |-> TRUE,
     keys |-> KeeperWiring[k].keys,
     deps |-> KeeperWiring[k].deps,
     zero |-> {d \in KeeperWiring[k].deps : ~keepers[d].built}]

\* app.<k> = <module>.NewKeeper(...) for the seven constructed keepers
NewKeeper(k) ==
    /\ pc = k
    /\ k \in DOMAIN KeeperWiring
    /\ keepers' = [keepers EXCEPT ![k] = BuildKeeper(k)]
    /\ pc' = After(k)
    /\ UNCHANGED <<cdc, keys, router, initChainer, mounted, anteHandler, baseKey, sealed>>
    /\ UNCHANGED chainVars

\* app.Router().AddRoute(...).AddRoute(...).AddRoute(...)
AddRoutes ==
    /\ pc = "AddRoute"
    /\ router' = router \o [i \in 1..Len(AppRoutes) |->
                              [name |-> AppRoutes[i].name,
                               handler |-> AppRoutes[i].handler,
                               deps |-> AppRoutes[i].deps,
                               zero |-> {d \in AppRoutes[i].deps : ~keepers[d].built}]]
    /\ pc' = After("AddRoute")
    /\ UNCHANGED <<cdc, keys, keepers, initChainer, mounted, anteHandler, baseKey, sealed>>
    /\ UNCHANGED chainVars

\* app.SetInitChainer(app.initChainerFn(app.coolKeeper, app.powKeeper))
SetInitChainer ==
    /\ pc = "SetInitChainer"
    /\ initChainer' = [set |-> TRUE,
                       deps |-> {"accountKeeper", "coolKeeper", "powKeeper"},
                       zero |-> {d \in {"accountKeeper", "coolKeeper", "powKeeper"} :
                                   ~keepers[d].built}]
    /\ pc' = After("SetInitChainer")
    /\ UNCHANGED <<cdc, keys, keepers, router, mounted, anteHandler, baseKey, sealed>>
    /\ UNCHANGED chainVars

\* app.MountStores(...)
MountStores ==
    /\ pc = "MountStores"
    /\ mounted' = mounted \cup MountedKeys
    /\ pc' = After("MountStores")
    /\ UNCHANGED <<cdc, keys, keepers, router, initChainer, anteHandler, baseKey, sealed>>
    /\ UNCHANGED chainVars

\* NewDemocoinApp as it would be with no ante handler installed at this point.
SetAnteHandlerForgotten ==
    /\ pc = "SetAnteHandler"
    /\ pc' = After("SetAnteHandler")
    /\ UNCHANGED <<cdc, keys, keepers, router, initChainer, mounted, anteHandler, baseKey,
                   sealed>>
    /\ UNCHANGED chainVars

\* app.SetAnteHandler(auth.NewAnteHandler(app.accountKeeper, app.feeCollectionKeeper))
SetAnteHandler ==
    /\ pc = "SetAnteHandler"
    /\ anteHandler' = [set |-> TRUE,
                       deps |-> AppAnteHandler,
                       zero |-> {d \in AppAnteHandler : ~keepers[d].built}]
    /\ pc' = After("SetAnteHandler")
    /\ UNCHANGED <<cdc, keys, keepers, router, initChainer, mounted, baseKey, sealed>>
    /\ UNCHANGED chainVars

\* The load as it would be with the error not looked at.
LoadLatestVersionErrIgnored ==
    /\ pc = "LoadLatestVersion"
    /\ \E err \in BOOLEAN :
         /\ pc' = After("LoadLatestVersion")
         /\ baseKey' = IF err THEN baseKey ELSE "capKeyMainStore"
    /\ UNCHANGED <<cdc, keys, keepers, router, initChainer, mounted, anteHandler, sealed>>
    /\ UNCHANGED chainVars

\* err := app.LoadLatestVersion(app.capKeyMainStore); if err != nil { cmn.Exit(...) }
LoadLatestVersion ==
    /\ pc = "LoadLatestVersion"
    /\ \E err \in BOOLEAN :
         IF err
         THEN /\ pc' = "exited"
              /\ UNCHANGED baseKey
         ELSE /\ pc' = After("LoadLatestVersion")
              /\ baseKey' = "capKeyMainStore"
    /\ UNCHANGED <<cdc, keys, keepers, router, initChainer, mounted, anteHandler, sealed>>
    /\ UNCHANGED chainVars

\* app.Seal()
Seal ==
    /\ pc = "Seal"
    /\ sealed' = TRUE
    /\ pc' = After("Seal")
    /\ UNCHANGED <<cdc, keys, keepers, router, initChainer, mounted, anteHandler, baseKey>>
    /\ UNCHANGED chainVars

\* return app
Return ==
    /\ pc = "return"
    /\ pc' = After("return")
    /\ UNCHANGED appVars
    /\ UNCHANGED chainVars

Construct ==
    \/ MakeCodecCall
    \/ NewApp
    \/ \E k \in DOMAIN KeeperWiring : NewKeeper(k)
    \/ AddRoutes
    \/ SetInitChainer
    \/ MountStores
    \/ SetAnteHandler
    \/ LoadLatestVersion
    \/ Seal
    \/ Return

\* ------------------------------------------------------ key-value stores
Put(st, k, v) == [x \in (DOMAIN st) \cup {k} |-> IF x = k THEN v ELSE st[x]]
Has(st, k) == k \in DOMAIN st

\* The store key a keeper was constructed with.
KeyOf(k) == CHOOSE x \in keepers[k].keys : TRUE

\* A direct access of a keeper to the store behind its key.
Touch(k) == <<k, KeyOf(k)>>

\* ------------------------------------------------------ genesis documents
Counts == {0}
GenesisAccounts == [address : Addrs, coins : 0..MaxCoin]
AccountLists == UNION {[1..n -> GenesisAccounts] : n \in 0..MaxAccounts}
GenesisStates ==
    [accounts : AccountLists,
     cool : [trend : Trends],
     pow : [difficulty : Difficulties, count : Counts]]

\* What can go wrong with an InitChain request: nothing, or the bytes do not
\* decode, or the account at index acc does not convert, or a module rejects
\* its genesis.
Faults(d) ==
    {[at |-> a, acc |-> 0] :
        a \in {"none", "UnmarshalJSON", "cool.InitGenesis", "pow.InitGenesis"}}
    \cup {[at |-> "ToAppAccount", acc |-> i] : i \in 1..Len(d.accounts)}
Requests == UNION {{[doc |-> d, fault |-> f] : f \in Faults(d)} : d \in GenesisStates}
\* The requests a chain that is already Ready is sent: well-formed ones of at
\* most one account, which holds no coins (so that the coins in the model stay
\* bounded however often the chain is sent one), with one choice of module
\* parameters.
LaterRequests ==
    {req \in Requests :
        /\ req.fault.at = "none"
        /\ req.doc.cool.trend = "hot"
        /\ req.doc.pow.difficulty = 2
        /\ Len(req.doc.accounts) <= 1
        /\ \A i \in DOMAIN req.doc.accounts : req.doc.accounts[i].coins = 0}

\* -------------------------------------------------------------- keepers
\* types.GenesisAccount.ToAppAccount
ToAppAccount(gacc) == [address |-> gacc.address, coins |-> gacc.coins, sequence |-> 0]

AccKey(addr) == <<"acc", addr>>

\* auth.AccountKeeper.SetAccount
SetAccount(st, acc) ==
    [st EXCEPT ![KeyOf("accountKeeper")] = Put(@, AccKey(acc.address), acc)]

\* auth.AccountKeeper.GetAccount
HasAccount(st, addr) == Has(st[KeyOf("accountKeeper")], AccKey(addr))
GetAccount(st, addr) == st[KeyOf("accountKeeper")][AccKey(addr)]

\* auth.AccountKeeper.IterateAccounts: the accounts of the store, in the order
\* of the store's keys.
RECURSIVE IterateAccounts(_, _)
IterateAccounts(st, i) ==
    IF i > Len(AddrOrder) THEN <<>>
    ELSE (IF HasAccount(st, AddrOrder[i]) THEN <<GetAccount(st, AddrOrder[i])>> ELSE <<>>)
         \o IterateAccounts(st, i + 1)

\* cool.InitGenesis / cool.ExportGenesis
CoolInitGenesis(st, data) ==
    [st EXCEPT ![KeyOf("coolKeeper")] = Put(@, <<"trend", "">>, data.trend)]
CoolExportGenesis(st) == [trend |-> st[KeyOf("coolKeeper")][<<"trend", "">>]]

\* pow.InitGenesis / pow.ExportGenesis
PowInitGenesis(st, data) ==
    [st EXCEPT ![KeyOf("powKeeper")] =
        Put(Put(@, <<"difficulty", "">>, data.difficulty), <<"count", "">>, data.count)]
PowExportGenesis(st) ==
    [difficulty |-> st[KeyOf("powKeeper")][<<"difficulty", "">>],
     count |-> st[KeyOf("powKeeper")][<<"count", "">>]]

\* The loop over genesisState.Accounts as it would be setting an account only
\* when the store holds none for its address.
RECURSIVE SetGenesisAccountsKeepFirst(_, _, _, _)
SetGenesisAccountsKeepFirst(req, st, i, trace) ==
    IF i > Len(req.doc.accounts)
    THEN [ok |-> TRUE, stores |-> st, trace |-> trace]
    ELSE IF req.fault.acc = i
    THEN [ok |-> FALSE, stores |-> st, trace |-> Append(trace, <<"ToAppAccount", i>>)]
    ELSE SetGenesisAccountsKeepFirst(
             req,
             IF HasAccount(st, req.doc.accounts[i].address) THEN st
             ELSE SetAccount(st, ToAppAccount(req.doc.accounts[i])),
             i + 1,
             Append(Append(trace, <<"ToAppAccount", i>>), <<"SetAccount", i>>))

\* ---------------------------------------------------------- initChainerFn
\* The loop over genesisState.Accounts from index i on.
RECURSIVE SetGenesisAccounts(_, _, _, _)
SetGenesisAccounts(req, st, i, trace) ==
    IF i > Len(req.doc.accounts)
    THEN [ok |-> TRUE, stores |-> st, trace |-> trace]
    ELSE IF req.fault.acc = i
    THEN [ok |-> FALSE, stores |-> st, trace |-> Append(trace, <<"ToAppAccount", i>>)]
    ELSE SetGenesisAccounts(req, SetAccount(st, ToAppAccount(req.doc.accounts[i])), i + 1,
                            Append(Append(trace, <<"ToAppAccount", i>>), <<"SetAccount", i>>))

Panic(at, st, trace, touched) ==
    [outcome |-> "panic", at |-> at, stores |-> st, trace |-> trace, touched |-> touched]

\* The genesis handling as it would be with the error of cool.InitGenesis
\* dropped instead of raised.
GenesisModulesErrDropped(req, st, trace, touched) ==
    LET tc == Append(trace, <<"cool.InitGenesis", 0>>)
        c == IF req.fault.at = "cool.InitGenesis" THEN st
             ELSE CoolInitGenesis(st, req.doc.cool)
        tp == Append(tc, <<"pow.InitGenesis", 0>>)
    IN  IF req.fault.at = "pow.InitGenesis"
        THEN Panic("pow.InitGenesis", c, tp, touched \cup {Touch("coolKeeper")})
        ELSE [outcome |-> "ok", at |-> "return",
              stores |-> PowInitGenesis(c, req.doc.pow),
              trace |-> Append(tp, <<"return", 0>>),
              touched |-> touched \cup {Touch("coolKeeper"), Touch("powKeeper")}]

\* The genesis handling as it would be with pow initialized before cool.
GenesisModulesPowFirst(req, st, trace, touched) ==
    LET tp == Append(trace, <<"pow.InitGenesis", 0>>)
    IN  IF req.fault.at = "pow.InitGenesis"
        THEN Panic("pow.InitGenesis", st, tp, touched)
        ELSE
        LET w == PowInitGenesis(st, req.doc.pow)
            tc == Append(tp, <<"cool.InitGenesis", 0>>)
        IN  IF req.fault.at = "cool.InitGenesis"
            THEN Panic("cool.InitGenesis", w, tc, touched \cup {Touch("powKeeper")})
            ELSE [outcome |-> "ok", at |-> "return",
                  stores |-> CoolInitGenesis(w, req.doc.cool),
                  trace |-> Append(tc, <<"return", 0>>),
                  touched |-> touched \cup {Touch("coolKeeper"), Touch("powKeeper")}]

\* The application specific genesis handling that follows the loop:
\* cool.InitGenesis, then pow.InitGenesis, each error a panic, then the return.
GenesisModules(req, st, trace, touched) ==
    LET tc == Append(trace, <<"cool.InitGenesis", 0>>)
    IN  IF req.fault.at = "cool.InitGenesis"
        THEN Panic("cool.InitGenesis", st, tc, touched)
        ELSE
        LET c == CoolInitGenesis(st, req.doc.cool)
            tp == Append(tc, <<"pow.InitGenesis", 0>>)
        IN  IF req.fault.at = "pow.InitGenesis"
            THEN Panic("pow.InitGenesis", c, tp, touched \cup {Touch("coolKeeper")})
            ELSE [outcome |-> "ok", at |-> "return",
                  stores |-> PowInitGenesis(c, req.doc.pow),
                  trace |-> Append(tp, <<"return", 0>>),
                  touched |-> touched \cup {Touch("coolKeeper"), Touch("powKeeper")}]

\* The function returned by initChainerFn, run on a request: what it did, in
\* order, the stores it leaves and whether it returned or panicked (and where).
initChainerFn(req, st) ==
    IF req.fault.at = "UnmarshalJSON"
    THEN Panic("UnmarshalJSON", st, <<<<"UnmarshalJSON", 0>>>>, {})
    ELSE
    LET a == SetGenesisAccounts(req, st, 1, <<<<"UnmarshalJSON", 0>>>>)
        ta == IF \E e \in DOMAIN a.trace : a.trace[e][1] = "SetAccount"
              THEN {Touch("accountKeeper")} ELSE {}
    IN  IF ~a.ok THEN Panic("ToAppAccount", a.stores, a.trace, ta)
        ELSE GenesisModules(req, a.stores, a.trace, ta)

\* BaseApp.InitChain: the consensus engine hands the genesis request to the
\* init chainer of the returned application.  The function initChainerFn
\* returns keeps no record of having run: it runs on every request it is
\* handed, on a chain that is Ready as on a new one.
InitChain ==
    /\ pc = "returned"
    /\ gstate \in {"Uninitialized", "Ready"}
    /\ initChainer.set
    /\ inits' = IF inits = "none" THEN "one" ELSE "several"
    /\ \E req \in (IF inits = "none" THEN Requests ELSE LaterRequests) :
         \E r \in {initChainerFn(req, stores)} :
             /\ gdoc' = req
             /\ stores' = r.stores
             /\ gstate' = IF r.outcome = "ok" THEN "Ready" ELSE "Panicked"
             /\ last' = [NoOp EXCEPT !.op = "InitChain",
                                     !.result = IF r.outcome = "ok" THEN "ok" ELSE r.at,
                                     !.trace = r.trace,
                                     !.touched = r.touched,
                                     !.mutated = (r.stores # stores)]
    /\ UNCHANGED pc
    /\ UNCHANGED appVars

\* ------------------------------------------------------------ handlers
\* bank.Keeper: coins move only through the account keeper.
SubtractCoins(st, addr, amt) ==
    SetAccount(st, [GetAccount(st, addr) EXCEPT !.coins = @ - amt])
AddCoins(st, addr, amt) ==
    IF HasAccount(st, addr)
    THEN SetAccount(st, [GetAccount(st, addr) EXCEPT !.coins = @ + amt])
    ELSE SetAccount(st, [address |-> addr, coins |-> amt, sequence |-> 0])
HasCoins(st, addr, amt) == HasAccount(st, addr) /\ GetAccount(st, addr).coins >= amt

Result(res, st, touched) == [result |-> res, stores |-> st, touched |-> touched]

\* bank.NewHandler(bankKeeper) on a send of amt from one address to another
BankHandler(st, msg) ==
    IF ~HasCoins(st, msg.from, msg.amt)
    THEN Result("insufficient funds", st, {Touch("accountKeeper")})
    ELSE Result("ok", AddCoins(SubtractCoins(st, msg.from, msg.amt), msg.to, msg.amt),
                {Touch("accountKeeper")})

Egress(st) ==
    IF Has(st[KeyOf("ibcMapper")], <<"egress", "">>)
    THEN st[KeyOf("ibcMapper")][<<"egress", "">>] ELSE 0

\* ibc.NewHandler(ibcMapper, bankKeeper) on an outgoing transfer: the coins
\* leave the sender through the bank keeper, the packet is queued by the mapper.
IBCHandler(st, msg) ==
    IF ~HasCoins(st, msg.from, msg.amt)
    THEN Result("insufficient funds", st, {Touch("accountKeeper")})
    ELSE Result("ok",
                [SubtractCoins(st, msg.from, msg.amt) EXCEPT ![KeyOf("ibcMapper")] =
                    Put(@, <<"egress", "">>, Egress(st) + 1)],
                {Touch("accountKeeper"), Touch("ibcMapper")})

Bonded(st, addr) ==
    IF Has(st[KeyOf("stakingKeeper")], <<"bond", addr>>)
    THEN st[KeyOf("stakingKeeper")][<<"bond", addr>>] ELSE 0

\* simplestaking.NewHandler(stakingKeeper): bonding takes the coins from the
\* sender through the bank keeper, unbonding gives them back.
StakingHandler(st, msg) ==
    IF msg.kind = "bond"
    THEN IF ~HasCoins(st, msg.from, msg.amt)
         THEN Result("insufficient funds", st, {Touch("accountKeeper")})
         ELSE Result("ok",
                     [SubtractCoins(st, msg.from, msg.amt) EXCEPT ![KeyOf("stakingKeeper")] =
                         Put(@, <<"bond", msg.from>>, Bonded(st, msg.from) + msg.amt)],
                     {Touch("accountKeeper"), Touch("stakingKeeper")})
    ELSE IF Bonded(st, msg.from) < msg.amt
         THEN Result("invalid unbond", st, {Touch("stakingKeeper")})
         ELSE Result("ok",
                     [AddCoins(st, msg.from, msg.amt) EXCEPT ![KeyOf("stakingKeeper")] =
                         Put(@, <<"bond", msg.from>>, Bonded(st, msg.from) - msg.amt)],
                     {Touch("accountKeeper"), Touch("stakingKeeper")})

RunHandler(h, st, msg) ==
    IF h = "bank.NewHandler" THEN BankHandler(st, msg)
    ELSE IF h = "ibc.NewHandler" THEN IBCHandler(st, msg)
    ELSE StakingHandler(st, msg)

\* ------------------------------------------------------------- dispatch
\* Router.Route: the handler registered under a name ("" when there is none).
Route(rtr, name) ==
    IF \E i \in DOMAIN rtr : rtr[i].name = name
    THEN rtr[CHOOSE i \in DOMAIN rtr :
               /\ rtr[i].name = name
               /\ \A j \in DOMAIN rtr : rtr[j].name = name => i <= j].handler
    ELSE ""

\* The messages delivered: sends for the bank route, outgoing transfers for the
\* ibc route, bond and unbond for the simplestaking route, and a message whose
\* route ("cool") has no handler.
Msg(route, from, to, amt, kind) ==
    [route |-> route, from |-> from, to |-> to, amt |-> amt, kind |-> kind]
Msgs ==
    {Msg("bank", f, t, a, "send") : f \in Addrs, t \in Addrs, a \in 1..MaxCoin}
    \cup {Msg("ibc", f, f, a, "transfer") : f \in Addrs, a \in 1..MaxCoin}
    \cup {Msg("simplestaking", f, f, a, k) :
             f \in Addrs, a \in 1..MaxCoin, k \in {"bond", "unbond"}}
    \cup {Msg("cool", f, f, 1, "quiz") : f \in Addrs}
Txs == [anteOK : BOOLEAN, msg : Msgs]

\* BaseApp's run of one transaction: the ante handler, when one is installed,
\* then the handler the router has for the message's route.
RunTx(tx, st) ==
    LET ante == IF anteHandler.set THEN <<<<"ante", 0>>>> ELSE <<>>
        h == Route(router, tx.msg.route)
    IN  IF anteHandler.set /\ ~tx.anteOK
        THEN [result |-> "ante error", stores |-> st, trace |-> ante, touched |-> {}]
        ELSE IF h = ""
        THEN [result |-> "no such route", stores |-> st, trace |-> ante, touched |-> {}]
        ELSE LET r == RunHandler(h, st, tx.msg)
             IN  [result |-> r.result, stores |-> r.stores,
                  trace |-> Append(ante, <<h, 0>>), touched |-> r.touched]

\* BaseApp.DeliverTx on the running chain.
DeliverTx ==
    /\ pc = "returned"
    /\ gstate = "Ready"
    /\ \E tx \in Txs :
         /\ tx.msg.route = "ibc" => Egress(stores) < MaxEgress
         /\ \E r \in {RunTx(tx, stores)} :
                /\ stores' = r.stores
                /\ last' = [NoOp EXCEPT !.op = "DeliverTx",
                                        !.tx = tx,
                                        !.route = tx.msg.route,
                                        !.result = r.result,
                                        !.trace = r.trace,
                                        !.touched = r.touched,
                                        !.mutated = (r.stores # stores)]
    /\ gdoc' = NoRequest
    /\ UNCHANGED <<pc, gstate, inits>>
    /\ UNCHANGED appVars

\* ------------------------------------------------------------- export
\* appendAccount as it would be without the Coins field.
appendAccountNoCoins(accounts, acc) ==
    [accounts |-> Append(accounts, [address |-> acc.address, coins |-> 0]), stop |-> FALSE]

\* appendAccount as it would be returning true.
appendAccountStops(accounts, acc) ==
    [accounts |-> Append(accounts, [address |-> acc.address, coins |-> acc.coins]),
     stop |-> TRUE]

\* appendAccount: the visitor handed to IterateAccounts appends the account's
\* GenesisAccount to the accounts collected so far and returns false.
appendAccount(accounts, acc) ==
    [accounts |-> Append(accounts, [address |-> acc.address, coins |-> acc.coins]),
     stop |-> FALSE]

\* auth.AccountKeeper.IterateAccounts handing the accounts of the store to the
\* visitor, one after the other, until the visitor returns true.
RECURSIVE Visit(_, _, _)
Visit(accs, i, accounts) ==
    IF i > Len(accs) THEN accounts
    ELSE LET r == appendAccount(accounts, accs[i])
         IN  IF r.stop THEN r.accounts ELSE Visit(accs, i + 1, r.accounts)

\* The genState of ExportAppStateAndValidators.
ExportGenState(st) ==
    [accounts |-> Visit(IterateAccounts(st, 1), 1, <<>>),
     pow |-> PowExportGenesis(st),
     cool |-> CoolExportGenesis(st)]

\* The export as it would be with a visitor that takes the coins of every
\* account it visits.
ExportAppStateAndValidatorsTakesCoins ==
    /\ pc = "returned"
    /\ gstate = "Ready"
    /\ \E err \in BOOLEAN :
         last' = [NoOp EXCEPT !.op = "Export",
                              !.result = IF err THEN "marshal error" ELSE "ok",
                              !.export = IF err THEN NoDoc ELSE ExportGenState(stores),
                              !.touched = {Touch("accountKeeper"), Touch("powKeeper"),
                                           Touch("coolKeeper")}]
    /\ stores' = [stores EXCEPT ![KeyOf("accountKeeper")] =
                     [k \in DOMAIN @ |-> [@[k] EXCEPT !.coins = 0]]]
    /\ UNCHANGED <<pc, gstate, inits, gdoc>>
    /\ UNCHANGED appVars

\* The export as it would be returning the addresses with a bond as validators.
ExportAppStateAndValidatorsOfBonds ==
    /\ pc = "returned"
    /\ gstate = "Ready"
    /\ \E err \in BOOLEAN :
         last' = [NoOp EXCEPT !.op = "Export",
                              !.result = IF err THEN "marshal error" ELSE "ok",
                              !.export = IF err THEN NoDoc ELSE ExportGenState(stores),
                              !.validators =
                                  IF err THEN <<>>
                                  ELSE SelectSeq(AddrOrder, LAMBDA a : Bonded(stores, a) > 0),
                              !.touched = {Touch("accountKeeper"), Touch("powKeeper"),
                                           Touch("coolKeeper")}]
    /\ UNCHANGED <<pc, gstate, inits, gdoc, stores>>
    /\ UNCHANGED appVars

\* ExportAppStateAndValidators: the marshalled genState and no validators, or
\* the marshalling error.
ExportAppStateAndValidators ==
    /\ pc = "returned"
    /\ gstate = "Ready"
    /\ \E err \in BOOLEAN :
         last' = [NoOp EXCEPT !.op = "Export",
                              !.result = IF err THEN "marshal error" ELSE "ok",
                              !.export = IF err THEN NoDoc ELSE ExportGenState(stores),
                              !.touched = {Touch("accountKeeper"), Touch("powKeeper"),
                                           Touch("coolKeeper")}]
    /\ UNCHANGED <<pc, gstate, inits, gdoc, stores>>
    /\ UNCHANGED appVars

\* ------------------------------------------------------------------ claims
Range(s) == {s[i] : i \in DOMAIN s}
Count(s, e) == Cardinality({i \in DOMAIN s : s[i] = e})
\* two lists hold the same entries the same number of times
SameCollection(s, t) ==
    /\ Len(s) = Len(t)
    /\ \A e \in Range(s) \cup Range(t) : Count(s, e) = Count(t, e)
DistinctAddresses(accs) ==
    \A i, j \in DOMAIN accs : accs[i].address = accs[j].address => i = j

\* an export that succeeded on a new chain after its genesis, with no
\* transaction delivered to it
ExportedAfterInit ==
    /\ gstate = "Ready"
    /\ inits = "one"
    /\ gdoc # NoRequest
    /\ last.op = "Export"
    /\ last.result = "ok"

RoundTrip ==
    /\ SameCollection(last.export.accounts, gdoc.doc.accounts)
    /\ last.export.pow = gdoc.doc.pow
    /\ last.export.cool = gdoc.doc.cool

\* C1 as stated: for every genesis document the init chainer accepts, the
\* export taken right after it lists the document's accounts (as a collection
\* of (address, coins) entries) and its pow and cool parameters.
C1_RoundTripAnyDocument == ExportedAfterInit => RoundTrip

\* C1, amended: the round trip holds for every accepted genesis document whose
\* accounts have pairwise distinct addresses; in every case the pow and cool
\* parameters come back unchanged.
C1_RoundTripDistinctAddresses ==
    ExportedAfterInit =>
        /\ last.export.pow = gdoc.doc.pow
        /\ last.export.cool = gdoc.doc.cool
        /\ DistinctAddresses(gdoc.doc.accounts) => RoundTrip

\* a successful export right after a genesis of two accounts listed against
\* the store's order, one of them with coins
C1_Witness ==
    /\ ExportedAfterInit
    /\ Len(gdoc.doc.accounts) = 2
    /\ gdoc.doc.accounts[1] = [address |-> "addr2", coins |-> 1]
    /\ gdoc.doc.accounts[2].address = "addr1"
    /\ Len(last.export.accounts) = 2

\* The request was accepted: nothing in it makes a step of the init chainer fail.
Accepted(req) == req.fault.at = "none"

\* the ledger holds everything the document of the request says
FullyInitialized(req) ==
    /\ \A i \in DOMAIN req.doc.accounts : HasAccount(stores, req.doc.accounts[i].address)
    /\ Has(stores[KeyOf("coolKeeper")], <<"trend", "">>)
    /\ CoolExportGenesis(stores) = req.doc.cool
    /\ Has(stores[KeyOf("powKeeper")], <<"difficulty", "">>)
    /\ PowExportGenesis(stores) = req.doc.pow

\* C2: a genesis request with a failing step (decode, an account conversion,
\* cool.InitGenesis, pow.InitGenesis) makes the init chainer panic at that
\* very step without returning a response, the chain is then halted for good,
\* and a chain that is Ready was initialized from an accepted request, in full.
C2_GenesisFailureIsFatal ==
    /\ (gstate # "Uninitialized" /\ gdoc # NoRequest /\ ~Accepted(gdoc)) =>
          /\ gstate = "Panicked"
          /\ last.op = "InitChain"
          /\ last.result = gdoc.fault.at
          /\ last.trace[Len(last.trace)][1] = gdoc.fault.at
          /\ \A i \in DOMAIN last.trace : last.trace[i][1] # "return"
    /\ gstate = "Panicked" => last.op = "InitChain" /\ ~Accepted(gdoc)
    /\ (gstate = "Ready" /\ gdoc # NoRequest) => Accepted(gdoc) /\ FullyInitialized(gdoc)

\* pow.InitGenesis failed after accounts and the cool genesis had been written
C2_Witness ==
    /\ gstate = "Panicked"
    /\ gdoc.fault.at = "pow.InitGenesis"
    /\ Len(gdoc.doc.accounts) > 0
    /\ last.mutated

AllRegistrations == Range(MakeCodecSteps) \ {"Seal"}

\* C3: the codec holds all its registrations and is sealed when the
\* application object is built; routes, init chainer, mounted stores, ante
\* handler and the loaded version are all in place when the application is
\* sealed; the application is sealed when it is returned, and only a returned,
\* sealed application processes InitChain or a transaction.
C3_FrozenBeforeProcessing ==
    /\ cdc.made => cdc.sealed /\ ~cdc.panicked /\ cdc.types = AllRegistrations
    /\ keys # {} => cdc.made
    /\ sealed =>
          /\ Len(router) = Len(AppRoutes)
          /\ initChainer.set
          /\ MountedKeys \subseteq mounted
          /\ anteHandler.set
          /\ baseKey # Nil
    /\ pc = "returned" => sealed
    /\ (gstate # "Uninitialized" \/ last.op # "none") => sealed /\ pc = "returned"

\* a sealed, returned application has processed a transaction
C3_Witness == sealed /\ pc = "returned" /\ last.op = "DeliverTx"


\* the store keys handed to some keeper so far
HandedKeys == UNION {keepers[k].keys : k \in KeeperNames}

\* C5 as stated: once MountStores has run (so when LoadLatestVersion runs and
\* when the application is sealed), every store key handed to a keeper is
\* mounted.  Violated: keyParams and tkeyParams, handed to params.NewKeeper,
\* are not arguments of MountStores.
C5_HandedKeysAreMounted == Past("MountStores") => HandedKeys \subseteq mounted

ModuleKeepers == {"coolKeeper", "accountKeeper", "powKeeper", "ibcMapper", "stakingKeeper"}
\* the keepers constructed over a store key
KeeperOwners(k) == {m \in KeeperNames : k \in keepers[m].keys}
\* the owners of a store key: those keepers and, for the key the application
\* is loaded with, the base application
KeyOwners(k) == KeeperOwners(k) \cup (IF baseKey = k THEN {"BaseApp"} ELSE {})
DistinctNames == \A a, b \in keys : StoreKeyName[a] = StoreKeyName[b] => a = b
OneKeyEach == \A m \in ModuleKeepers : keepers[m].built => Cardinality(keepers[m].keys) = 1

\* C6 as stated: the declared store keys have pairwise distinct names, no store
\* key has more than one owner among the keepers and the base application, and
\* each module keeper is constructed over exactly one store key.
C6_NoKeySharedAtAll ==
    /\ DistinctNames
    /\ OneKeyEach
    /\ \A k \in KeyFields : Cardinality(KeyOwners(k)) <= 1

\* C6, amended: the declared store keys have pairwise distinct names, no store
\* key is handed to more than one keeper, each module keeper is constructed
\* over exactly one store key, and the only key a keeper shares with the base
\* application is the main store key, which the cool keeper is constructed
\* over and LoadLatestVersion is called with.
C6_NoKeySharedByKeepers ==
    /\ DistinctNames
    /\ OneKeyEach
    /\ \A k \in KeyFields :
          /\ Cardinality(KeeperOwners(k)) <= 1
          /\ Cardinality(KeyOwners(k)) > 1 =>
                k = "capKeyMainStore" /\ KeyOwners(k) = {"coolKeeper", "BaseApp"}

\* the application is returned: all keepers are built and the main store key
\* is both the cool keeper's and the base application's
C6_Witness ==
    /\ pc = "returned"
    /\ keys = KeyFields
    /\ \A m \in ModuleKeepers : keepers[m].built
    /\ KeyOwners("capKeyMainStore") = {"coolKeeper", "BaseApp"}

\* every store a keeper opened in the last operation is behind a key that
\* keeper, and no other, was constructed with; the account store is opened by
\* the account keeper only
TouchedOwnStoresOnly ==
    \A t \in last.touched :
        /\ t[2] \in keepers[t[1]].keys
        /\ \A m \in KeeperNames \ {t[1]} : t[2] \notin keepers[m].keys
        /\ t[2] = "capKeyAccountStore" => t[1] = "accountKeeper"

\* a store changes only in an operation in which the keeper owning it opened it
ChangedThroughOwnerOnly ==
    \A k \in KeyFields :
        stores'[k] # stores[k] =>
            /\ KeeperOwners(k) # {}
            /\ \A t \in last'.touched : t[2] = k => KeeperOwners(k) = {t[1]}
            /\ \E t \in last'.touched : t[2] = k

\* C7: in every reachable state the keepers that acted in the last operation
\* (genesis, a delivered transaction, an export) opened only the stores behind
\* their own keys, which no other keeper holds, and every change of a store,
\* the account store with the balances included, was made by the keeper that
\* owns that store.
C7_StoreIsolation == [](TouchedOwnStoresOnly) /\ [][ChangedThroughOwnerOnly]_vars

\* a bond went through: the staking keeper wrote its own store and the coins
\* left the sender through the account keeper
C7_Witness ==
    /\ last.op = "DeliverTx"
    /\ last.route = "simplestaking"
    /\ last.result = "ok"
    /\ last.mutated
    /\ last.touched = {<<"accountKeeper", "capKeyAccountStore">>,
                       <<"stakingKeeper", "capKeyStakingStore">>}

RegisteredRoutes == {"bank", "ibc", "simplestaking"}
RoutesNamed(n) == {i \in DOMAIN router : router[i].name = n}
\* the handlers the last operation invoked, in order
HandlersInvoked == SelectSeq(last.trace, LAMBDA e : e[1] \notin {"ante"})
AnteInvocations == Cardinality({i \in DOMAIN last.trace : last.trace[i][1] = "ante"})
\* the last operation is a transaction that got as far as the router
Dispatched == last.op = "DeliverTx" /\ last.result # "ante error"

RouteTableBuilt ==
    Past("AddRoute") =>
        /\ {router[i].name : i \in DOMAIN router} = RegisteredRoutes
        /\ \A n \in RegisteredRoutes : Cardinality(RoutesNamed(n)) = 1

DispatchByTable ==
    Dispatched =>
        IF last.route \in RegisteredRoutes
        THEN /\ Cardinality(RoutesNamed(last.route)) = 1
             /\ \A i \in RoutesNamed(last.route) :
                   HandlersInvoked = <<<<router[i].handler, 0>>>>
        ELSE /\ last.result = "no such route"
             /\ HandlersInvoked = <<>>
             /\ ~last.mutated

\* C8: the route table built by NewDemocoinApp holds bank, ibc and
\* simplestaking, each once, and never changes once built; a dispatched
\* message with a registered route invokes the one handler registered for it
\* and nothing else; one with an unregistered route fails with no such route,
\* invokes no handler and changes no store.
C8_RouteDeterminism ==
    /\ [](RouteTableBuilt /\ DispatchByTable)
    /\ [][Past("AddRoute") => router' = router]_vars

\* a message whose route has no handler got past the ante handler and was
\* rejected by the router of the three routes
C8_Witness ==
    /\ Dispatched
    /\ last.route = "cool"
    /\ last.result = "no such route"
    /\ Len(router) = 3

\* C9: every delivered transaction invokes the ante handler exactly once and
\* first; when the ante handler fails no route handler is invoked, the result
\* is the ante handler's error, no store has changed and the chain takes the
\* next transaction.
C9_AnteGating ==
    last.op = "DeliverTx" =>
        /\ AnteInvocations = 1
        /\ last.trace[1] = <<"ante", 0>>
        /\ ~last.tx.anteOK =>
              /\ HandlersInvoked = <<>>
              /\ last.result = "ante error"
              /\ ~last.mutated
              /\ gstate = "Ready"
              /\ ENABLED DeliverTx

\* a bank send whose ante check failed was rejected
C9_Witness ==
    /\ last.op = "DeliverTx"
    /\ last.route = "bank"
    /\ ~last.tx.anteOK
    /\ last.result = "ante error"

\* the steps of the init chainer on a document, in the order of the code
AccountSteps(n) ==
    [i \in 1..(2 * n) |->
        IF i % 2 = 1 THEN <<"ToAppAccount", (i + 1) \div 2>> ELSE <<"SetAccount", i \div 2>>]
GenesisOrder(doc) ==
    <<<<"UnmarshalJSON", 0>>>> \o AccountSteps(Len(doc.accounts))
    \o <<<<"cool.InitGenesis", 0>>, <<"pow.InitGenesis", 0>>, <<"return", 0>>>>
IsPrefix(s, t) == Len(s) <= Len(t) /\ \A i \in DOMAIN s : s[i] = t[i]

\* C10: a run of the init chainer that returns has done, each once and in this
\* order: the decoding, the conversion and setting of every account in
\* document order, cool.InitGenesis, pow.InitGenesis, the return; a run that
\* panics has done a proper initial part of that order, ending with the step
\* that failed.
C10_FixedGenesisOrder ==
    last.op = "InitChain" =>
        /\ IsPrefix(last.trace, GenesisOrder(gdoc.doc))
        /\ last.result = "ok" <=> last.trace = GenesisOrder(gdoc.doc)
        /\ last.result # "ok" =>
              /\ last.trace[Len(last.trace)][1] = last.result
              /\ last.result = gdoc.fault.at

\* a genesis of two accounts went through
C10_Witness ==
    /\ last.op = "InitChain"
    /\ last.result = "ok"
    /\ Len(gdoc.doc.accounts) = 2
    /\ Len(last.trace) = 8

\* C11 as stated: on a chain that is Ready no InitChain request is processed
\* any more: no step from a Ready chain is a run of the init chainer, so none
\* sets an account or runs a module's InitGenesis again, and none overwrites
\* what transactions have written.
C11_GenesisOnce == [][gstate = "Ready" => ~InitChain]_vars

\* the modules of the claim, each with the keeper NewDemocoinApp builds for it,
\* the route its handler would be registered under and its genesis step
StoreModules ==
    [cool          |-> [keeper |-> "coolKeeper", init |-> "cool.InitGenesis"],
     pow           |-> [keeper |-> "powKeeper", init |-> "pow.InitGenesis"],
     ibc           |-> [keeper |-> "ibcMapper", init |-> "ibc.InitGenesis"],
     simplestaking |-> [keeper |-> "stakingKeeper", init |-> "simplestaking.InitGenesis"]]
\* those whose keeper has been constructed over a store key
OwnStoreModules ==
    {m \in DOMAIN StoreModules :
        keepers[StoreModules[m].keeper].built /\ keepers[StoreModules[m].keeper].keys # {}}
RoutedModules == {m \in DOMAIN StoreModules : RoutesNamed(m) # {}}
InitializedModules ==
    {m \in DOMAIN StoreModules :
        \E i \in DOMAIN last.trace : last.trace[i][1] = StoreModules[m].init}
ExportedModules == DOMAIN StoreModules \cap DOMAIN last.export

\* C12 as stated: every module whose keeper is constructed over a store key
\* (cool, pow, ibc, staking) has a route in the router once the routes are
\* added, has had its InitGenesis run when the init chainer has returned, and
\* has a field in the document of a successful export; so the modules a
\* genesis initializes and the modules an export writes are the same, namely
\* those.
C12_EveryModuleParticipates ==
    /\ Past("AddRoute") => OwnStoreModules \subseteq RoutedModules
    /\ (last.op = "InitChain" /\ last.result = "ok") =>
          InitializedModules = OwnStoreModules
    /\ (last.op = "Export" /\ last.result = "ok") =>
          ExportedModules = OwnStoreModules

\* the entries of the last export for an address
Entries(a) == {i \in DOMAIN last.export.accounts : last.export.accounts[i].address = a}

\* C13: the document of a successful export, whatever genesis requests and
\* transactions, accepted or rejected, came before it, has exactly one entry
\* for every account in the account store and none for any other address,
\* each entry with the coins the account holds now, and has the pow and cool
\* parameters the stores hold now.
C13_ExportReflectsState ==
    (last.op = "Export" /\ last.result = "ok") =>
        /\ \A a \in Addrs :
              IF HasAccount(stores, a)
              THEN /\ Cardinality(Entries(a)) = 1
                   /\ \A i \in Entries(a) :
                         last.export.accounts[i].coins = GetAccount(stores, a).coins
              ELSE Entries(a) = {}
        /\ \A i \in DOMAIN last.export.accounts : last.export.accounts[i].address \in Addrs
        /\ last.export.pow.difficulty = stores[KeyOf("powKeeper")][<<"difficulty", "">>]
        /\ last.export.cool.trend = stores[KeyOf("coolKeeper")][<<"trend", "">>]

\* the export after a transfer of addr1's only coin to addr2: both accounts are
\* listed, addr1 with nothing and addr2 with the coin, and the difficulty is 1
C13_Witness ==
    /\ last.op = "Export"
    /\ last.result = "ok"
    /\ gdoc = NoRequest
    /\ inits = "one"
    /\ last.export.accounts =
          <<[address |-> "addr1", coins |-> 0], [address |-> "addr2", coins |-> 1]>>
    /\ last.export.pow.difficulty = 1

RECURSIVE SumCoins(_, _)
SumCoins(accs, i) == IF i > Len(accs) THEN 0 ELSE accs[i].coins + SumCoins(accs, i + 1)
\* the coins of all accounts of the account store
Supply(st) == SumCoins(IterateAccounts(st, 1), 1)
\* the balance of every address (0 for one without an account)
Balances(st) ==
    [a \in Addrs |-> IF HasAccount(st, a) THEN GetAccount(st, a).coins ELSE 0]
NoNegativeBalance == pc = "returned" => \A a \in Addrs : Balances(stores)[a] >= 0
\* a step that delivers a transaction whose message went to the bank route
\* (DeliverTx is the one action that leaves "DeliverTx" in last.op)
BankTransfer ==
    /\ last'.op = "DeliverTx"
    /\ last'.route = "bank"
    /\ last'.result # "ante error"

\* C14: no account ever holds a negative balance, and every transfer
\* dispatched through the bank route leaves the coins summed over all accounts
\* as they were, so any sequence of them keeps the supply of the genesis; a
\* transfer of more than the sender holds returns the insufficient-funds error
\* and leaves every balance as it was, and a transfer within the sender's
\* balance moves the amount.
C14_LedgerConservation ==
    /\ [](NoNegativeBalance)
    /\ [][BankTransfer =>
            /\ Supply(stores') = Supply(stores)
            /\ IF Balances(stores)[last'.tx.msg.from] < last'.tx.msg.amt
               THEN /\ last'.result = "insufficient funds"
                    /\ Balances(stores') = Balances(stores)
                    /\ stores' = stores
               ELSE /\ last'.result = "ok"
                    /\ last'.tx.msg.from # last'.tx.msg.to =>
                          /\ Balances(stores')[last'.tx.msg.from] =
                                Balances(stores)[last'.tx.msg.from] - last'.tx.msg.amt
                          /\ Balances(stores')[last'.tx.msg.to] =
                                Balances(stores)[last'.tx.msg.to] + last'.tx.msg.amt]_vars

\* a transfer between two accounts went through the bank route and moved a coin
C14_Witness ==
    /\ last.op = "DeliverTx"
    /\ last.route = "bank"
    /\ last.result = "ok"
    /\ last.tx.msg.from # last.tx.msg.to
    /\ last.mutated
    /\ Supply(stores) > 0

\* the entries of a genesis document for an address
EntriesOf(doc, a) == {i \in DOMAIN doc.accounts : doc.accounts[i].address = a}
\* the last of them
LastEntry(doc, a) == CHOOSE i \in EntriesOf(doc, a) : \A j \in EntriesOf(doc, a) : j <= i
AccountStore == stores[KeyOf("accountKeeper")]
SetIsIdempotent ==
    \A acc \in [address : Addrs, coins : 0..MaxCoin, sequence : {0}] :
        SetAccount(SetAccount(stores, acc), acc) = SetAccount(stores, acc)

\* C15: the account store never holds more than one account for an address;
\* after a run of the init chainer that returned, every address the document
\* lists, once or several times, has one account, holding the coins of the
\* last entry the document has for it; and setting an account a second time
\* changes nothing.
C15_LastEntryWins ==
    pc = "returned" =>
        /\ DOMAIN AccountStore \subseteq {AccKey(a) : a \in Addrs}
        /\ \A a \in Addrs :
              Cardinality({i \in DOMAIN IterateAccounts(stores, 1) :
                              IterateAccounts(stores, 1)[i].address = a}) <= 1
        /\ (last.op = "InitChain" /\ last.result = "ok") =>
              /\ \A a \in Addrs :
                    EntriesOf(gdoc.doc, a) # {} =>
                        /\ HasAccount(stores, a)
                        /\ GetAccount(stores, a).coins =
                              gdoc.doc.accounts[LastEntry(gdoc.doc, a)].coins
              /\ SetIsIdempotent

\* a genesis that lists addr1 twice, first with a coin and then without, went
\* through
C15_Witness ==
    /\ last.op = "InitChain"
    /\ last.result = "ok"
    /\ inits = "one"
    /\ gdoc.doc.accounts =
          <<[address |-> "addr1", coins |-> 1], [address |-> "addr1", coins |-> 0]>>
    /\ GetAccount(stores, "addr1").coins = 0

\* the collaborators that were still at their zero value when they were handed
\* to a keeper, to a route handler, to the init chainer or to the ante handler
WiredAtZeroValue ==
    UNION {keepers[k].zero : k \in KeeperNames}
    \cup UNION {router[i].zero : i \in DOMAIN router}
    \cup initChainer.zero
    \cup anteHandler.zero

\* C16 as stated: at every step of NewDemocoinApp, whatever keeper has been
\* handed to another keeper, to a route handler, to the init chainer or to the
\* ante handler had been assigned by an earlier step and was not at its zero
\* value.
C16_NothingWiredAtZeroValue == WiredAtZeroValue = {}

\* C17: a failed LoadLatestVersion ends NewDemocoinApp there and then: nothing
\* follows the exit, the application is not sealed, not returned and never
\* initialized or used; an application that is returned, or about to be, has
\* been loaded and sealed.
C17_LoadFailureIsFatal ==
    /\ [](/\ pc = "exited" =>
               /\ baseKey = Nil
               /\ ~sealed
               /\ gstate = "Uninitialized"
               /\ last = NoOp
          /\ Past("LoadLatestVersion") => baseKey = "capKeyMainStore"
          /\ Past("Seal") => sealed /\ baseKey = "capKeyMainStore"
          /\ pc = "returned" => sealed /\ baseKey = "capKeyMainStore")
    /\ [][/\ pc = "exited" => pc' = "exited"
          /\ (pc = "LoadLatestVersion" /\ pc' # "exited") => baseKey' = "capKeyMainStore"]_vars

\* the load failed and the process has exited, with everything up to the ante
\* handler in place
C17_Witness ==
    /\ pc = "exited"
    /\ anteHandler.set
    /\ mounted # {}
    /\ ~sealed

\* C18: an export (the one operation that leaves "Export" in last.op) changes
\* no store, and neither the route table nor the sealed flag nor anything else
\* of the application and the chain, and the document an export would produce
\* is the same after it; after an export that follows an export every
\* transaction still has the result it would have had before the two.
C18_ExportIsReadOnly ==
    [][last'.op = "Export" =>
          /\ stores' = stores
          /\ router' = router
          /\ sealed' = sealed
          /\ UNCHANGED <<appVars, pc, gstate, inits, gdoc>>
          /\ ExportGenState(stores)' = ExportGenState(stores)
          /\ last.op = "Export" =>
                \A tx \in Txs : RunTx(tx, stores)' = RunTx(tx, stores)]_vars

\* an export taken when accounts, an outgoing ibc packet and a bond are in the
\* stores
C18_Witness ==
    /\ last.op = "Export"
    /\ last.result = "ok"
    /\ Len(last.export.accounts) = 2
    /\ Egress(stores) > 0
    /\ \E a \in Addrs : Bonded(stores, a) > 0

\* C19: every export returns the nil validator list; one that fails in
\* marshalling returns no app state and the error, one that succeeds returns
\* the marshalled genState and no error.
C19_NoValidatorsExported ==
    last.op = "Export" =>
        /\ last.validators = <<>>
        /\ last.result \in {"ok", "marshal error"}
        /\ last.result = "marshal error" => last.export = NoDoc
        /\ last.result = "ok" => last.export = ExportGenState(stores)

\* an export that succeeded while an address had a bond
C19_Witness ==
    /\ last.op = "Export"
    /\ last.result = "ok"
    /\ last.validators = <<>>
    /\ \E a \in Addrs : Bonded(stores, a) > 0

Next == Construct \/ InitChain \/ DeliverTx \/ ExportAppStateAndValidators

Spec == Init /\ [][Next]_vars
====
